---- MODULE Spec2Model ----
(***************************************************************************)
(* Model of the Icelandic SSN Usage API (src/main.py).                     *)
(*                                                                         *)
(* One POST /get-usage-data request is followed from the raw "kennitala"   *)
(* string of its body through the pydantic validator of SSNRequest, the    *)
(* directory lookup, the monitoring query and the HTTP response.           *)
(*                                                                         *)
(* A Python str is a sequence of characters; a character is a one-element  *)
(* TLA+ string.  The character U+0663 (ARABIC-INDIC DIGIT THREE) is the    *)
(* atom "U+0663": Python's \d and int() treat it as a decimal digit.       *)
(***************************************************************************)
EXTENDS Integers, Sequences, FiniteSets, TLC

VARIABLES
    v,                 \* the raw kennitala string of the request body
    pc,                \* position of the request: "received", "validated",
                       \* "monitoring" (lookup succeeded), "awaiting_metrics"
                       \* (the HTTP call is in flight), "closing_client"
                       \* (leaving the async with block), "done"
    kennitala,         \* request.kennitala, the validator's return value
    switch_port_data,  \* what get_switch_port_data returned (NoLookup before)
    usage_data,        \* what get_monitoring_data returned (NoUsage before)
    lookup_calls,      \* arguments of every Directory Lookup call issued
    metrics_calls,     \* params of every Metrics Query call issued
    metrics_outcome,   \* what the Metrics Query call did (NoOutcome before)
    end_time,          \* get_monitoring_data's end_time (NoTime before)
    response           \* the HTTP response of the request (NoResponse before)

vars == <<v, pc, kennitala, switch_port_data, usage_data,
          lookup_calls, metrics_calls, metrics_outcome, end_time, response>>

----------------------------------------------------------------------------
(* Bounds of the explored inputs.                                          *)

\* largest day number written into the DD field of a generated input
MaxDay == 32
\* largest month number written into the MM field of a generated input
MaxMonth == 13
\* largest gap, in seconds either way, between the two readings of
\* datetime.now() of one request that is explored second by second
MaxTick == 60
\* largest change of the local UTC offset, in quarter hours either way,
\* explored quarter hour by quarter hour
MaxOffsetSteps == 12

----------------------------------------------------------------------------
(* Characters and Python's str/int/re/datetime primitives.                 *)

AsciiDigits == <<"0", "1", "2", "3", "4", "5", "6", "7", "8", "9">>

\* regex class \d on a str pattern: any Unicode decimal digit
IsDigit(c) == c = "U+0663" \/ \E i \in 1..10 : AsciiDigits[i] = c

\* int() of one decimal digit character
DigitValue(c) ==
    IF c = "U+0663" THEN 3 ELSE (CHOOSE i \in 1..10 : AsciiDigits[i] = c) - 1

\* int(s) for a str of decimal digits
RECURSIVE int(_)
int(s) ==
    IF s = <<>> THEN 0
    ELSE 10 * int(SubSeq(s, 1, Len(s) - 1)) + DigitValue(s[Len(s)])

\* re.match(r'^\d{6}-?\d{4}$', s): '$' also matches just before a newline
\* that ends the string
re_match(s) ==
    /\ Len(s) >= 10
    /\ \A i \in 1..6 : IsDigit(s[i])
    /\ LET k == IF s[7] = "-" THEN 8 ELSE 7
       IN  /\ Len(s) >= k + 3
           /\ \A i \in k..(k + 3) : IsDigit(s[i])
           /\ \/ Len(s) = k + 3
              \/ Len(s) = k + 4 /\ s[k + 4] = "\n"

\* v.replace('-', '') left out
replace_dash_forgotten(s) == s

\* v.replace('-', ''): every '-' is removed
replace_dash(s) == SelectSeq(s, LAMBDA c : c # "-")

\* len(clean_ssn) != 10 raises
length_ok(clean_ssn) == Len(clean_ssn) = 10

\* century boundary off by one
full_year_ge(year) == IF year >= 50 THEN 1900 + year ELSE 2000 + year

\* if year > 50: 1900 + year else 2000 + year
full_year(year) == IF year > 50 THEN 1900 + year ELSE 2000 + year

\* calendar._isleap as used by datetime
is_leap(y) == y % 4 = 0 /\ (y % 100 # 0 \/ y % 400 = 0)

\* datetime's _days_in_month
days_in_month(y, m) ==
    IF m = 2 THEN (IF is_leap(y) THEN 29 ELSE 28)
    ELSE IF m \in {4, 6, 9, 11} THEN 30 ELSE 31

\* a date check that only bounds the day by 31
datetime_ok_any31(y, m, d) ==
    /\ 1 <= y /\ y <= 9999
    /\ 1 <= m /\ m <= 12
    /\ 1 <= d /\ d <= 31

\* datetime(y, m, d) does not raise ValueError
datetime_ok(y, m, d) ==
    /\ 1 <= y /\ y <= 9999
    /\ 1 <= m /\ m <= 12
    /\ 1 <= d /\ d <= days_in_month(y, m)

----------------------------------------------------------------------------
(* SSNRequest.validate_kennitala                                           *)

ErrFormat == "Invalid kennitala format. Expected format: DDMMYY-XXXX or DDMMYYXXXX"
ErrLength == "Kennitala must be exactly 10 digits"
ErrDate   == "Invalid date in kennitala"

Raise(msg) == [ok |-> FALSE, value |-> <<>>, error |-> msg]
Return(s)  == [ok |-> TRUE, value |-> s, error |-> ""]

validate_kennitala(s) ==
    IF ~re_match(s) THEN Raise(ErrFormat)
    ELSE LET clean_ssn == replace_dash(s)
         IN  IF ~length_ok(clean_ssn) THEN Raise(ErrLength)
             ELSE LET day   == int(SubSeq(clean_ssn, 1, 2))
                      month == int(SubSeq(clean_ssn, 3, 4))
                      year  == int(SubSeq(clean_ssn, 5, 6))
                  IN  IF ~datetime_ok(full_year(year), month, day)
                      THEN Raise(ErrDate)
                      ELSE Return(clean_ssn)

----------------------------------------------------------------------------
(* The external collaborators and the wall clock.                          *)

Switches == {"SW001", "SW002"}
Ports    == {"P001", "P002"}
Messages == {"Success", "No switch port for kennitala"}

\* get_switch_port_data returns a dict of this shape.  The repository's body
\* is a placeholder that returns ("SW001", "P001", True, "Success") for the
\* external directory API; the reply of that API is an input of the request,
\* and the placeholder's reply is one element of the set.
LookupResults ==
    [switch_number : Switches, port_number : Ports,
     success : BOOLEAN, message : Messages]

MockLookupResult ==
    [switch_number |-> "SW001", port_number |-> "P001",
     success |-> TRUE, message |-> "Success"]

StatusCodes == {200, 404, 500, 503}
Bodies ==
    { [text |-> "{\"status\":\"success\",\"data\":{}}", is_json |-> TRUE],
      [text |-> "Service Unavailable", is_json |-> FALSE] }

\* what `await client.get(...)` can do: return a response or raise
MetricsOutcomes ==
    [kind : {"response"}, status_code : StatusCodes, body : Bodies]
        \cup [kind : {"raise"}, message : {"ReadTimeout", "ConnectError"}]

\* timedelta(hours=24) in seconds
DaySeconds == 24 * 3600
\* the first instant datetime.now() can return, in epoch seconds
BaseTime == 20000 * DaySeconds

\* A naive local datetime: the local wall-clock reading at epoch instant
\* `now`, moved by `delta` seconds of wall-clock time.
Naive(now, delta) == [now |-> now, delta |-> delta]

\* a quarter of an hour
OffsetStep == 15 * 60

\* offset changes of time zones that are no multiple of a quarter hour or
\* lie beyond the explored range: 5, 20, 25, 40 and 44.5 minutes, 3.5, 5, 6
\* and 7 hours, and a whole day where a zone moved across the date line
IrregularOffsetChanges ==
    {300, 1200, 1500, 2400, 2670, 12600, 18000, 21600, 25200, DaySeconds}

\* Local UTC offset at end_time minus the offset 24 local hours earlier.  It
\* is a property of the host's time zone and the code puts no bound on it;
\* explored are zero, every quarter hour up to MaxOffsetSteps either way,
\* and the irregular changes either way.
OffsetChanges ==
    { k * OffsetStep : k \in (0 - MaxOffsetSteps)..MaxOffsetSteps }
        \cup IrregularOffsetChanges
        \cup { 0 - c : c \in IrregularOffsetChanges }

\* Second reading of the wall clock (the record's timestamp) minus the first
\* (end_time).  The code puts no bound on it either way: timeout=30.0 limits
\* each connect, read and write of the HTTP call separately, never the call
\* as a whole, so a reply that arrives in pieces takes any length of time;
\* other requests run while this one waits; and the clock may be set forward
\* or back in between.  Explored are every second up to MaxTick either way
\* and gaps of ten minutes, one hour, two hours and a day either way.
ClockJumps == {600, 3600, 7200, DaySeconds}

ClockSteps ==
    ((0 - MaxTick)..MaxTick)
        \cup ClockJumps
        \cup { 0 - j : j \in ClockJumps }

\* what can be raised inside the try block of get_monitoring_data before
\* the HTTP call is issued (building the client)
ClientErrors == {"client could not be constructed"}

\* int(dt.timestamp()) of a naive local datetime: the wall-clock reading is
\* read back with the UTC offset in force at that wall-clock time
timestamp(dt, offset_change) ==
    IF dt.delta = 0 THEN dt.now ELSE dt.now + dt.delta + offset_change

\* dt.isoformat()
isoformat(dt) == <<"isoformat", dt>>

NoTime == [none |-> TRUE]

NoLookup   == [success |-> FALSE, none |-> TRUE]
NoUsage    == [status |-> "none"]
NoOutcome  == [kind |-> "none"]
NoResponse == [status |-> 0]

----------------------------------------------------------------------------
(* get_monitoring_data                                                     *)

\* the selector built from the arguments in swapped order
query_selector_swapped(switch_number, port_number) ==
    <<"switch_number=\"", port_number, "\",port_number=\"", switch_number, "\"">>

\* f'switch_number="{switch_number}",port_number="{port_number}"'
query_selector(switch_number, port_number) ==
    <<"switch_number=\"", switch_number, "\",port_number=\"", port_number, "\"">>

\* params of the range query; start_time = end_time - timedelta(hours=24)
\* is taken on the naive local reading and then converted to epoch seconds
monitoring_params(switch_number, port_number, end, offset_change) ==
    [query |-> query_selector(switch_number, port_number),
     start |-> timestamp(Naive(end.now, 0 - DaySeconds), offset_change),
     end   |-> timestamp(end, offset_change),
     step  |-> "1h"]

\* str() of an HTTP status code
str_status(n) ==
    CASE n = 200 -> "200" [] n = 404 -> "404" [] n = 500 -> "500"
      [] n = 503 -> "503" [] n = 504 -> "504"

\* the error payload without the raw body, as in the except branch
monitoring_error_payload_no_body(o) ==
    [status   |-> "error",
     error    |-> <<"Monitoring API returned status ", str_status(o.status_code)>>]

\* the else branch of `if response.status_code == 200`
monitoring_error_payload(o) ==
    [status   |-> "error",
     error    |-> <<"Monitoring API returned status ", str_status(o.status_code)>>,
     response |-> o.body.text]

\* the dict get_monitoring_data returns for outcome o of the HTTP call
get_monitoring_data(switch_number, port_number, end, o) ==
    IF o.kind = "raise"
    THEN [status |-> "error",
          error  |-> <<"Failed to query monitoring system: ", o.message>>]
    ELSE IF o.status_code = 200
    THEN IF o.body.is_json
         THEN [status |-> "success",
               data   |-> <<"json", o.body.text>>,
               query  |-> query_selector(switch_number, port_number),
               time_range |->
                   [start |-> isoformat(Naive(end.now, 0 - DaySeconds)),
                    end   |-> isoformat(end)]]
         ELSE \* response.json() raises, caught by `except Exception`
              [status |-> "error",
               error  |-> <<"Failed to query monitoring system: ",
                            "JSONDecodeError">>]
    ELSE monitoring_error_payload(o)

----------------------------------------------------------------------------
(* Inputs.                                                                 *)

TwoDigits(n) == <<AsciiDigits[(n \div 10) + 1], AsciiDigits[(n % 10) + 1]>>

Str(d, m, yy, suffix, dashed) ==
    TwoDigits(d) \o TwoDigits(m) \o TwoDigits(yy)
        \o (IF dashed THEN <<"-">> ELSE <<>>) \o suffix

\* days worth telling apart: 00, 01 and the ends of the months
DaySet == {0, 1} \cup 27..MaxDay

DateInputs ==
    { Str(d, m, yy, <<"1", "2", "3", "4">>, dashed) :
        d \in DaySet, m \in 0..MaxMonth, yy \in 0..99, dashed \in BOOLEAN }

\* TEST_CASES of test_api.py
TestCases ==
    { <<"0","1","0","1","9","0","-","1","2","3","4">>,
      <<"0","1","0","1","9","0","1","2","3","4">>,
      <<"3","1","1","2","9","9","-","5","6","7","8">>,
      <<"0","1","0","1","5","0","-","9","9","9","9">>,
      <<"0","1","0","1","5","1","-","0","0","0","0">>,
      <<"0","1","0","1","0","0","-","1","1","1","1">>,
      <<"0","1","0","1","5","0","-","0","0","0","0">>,
      <<"3","2","0","1","9","0","-","1","2","3","4">>,
      <<"0","1","0","1","9","0">>,
      <<"0","1","0","1","9","0","-","1","2","3","4","5">>,
      <<"a","b","c","1","2","3","-","d","e","f","4">> }

EditChars == {"0", "-", "a", " ", "\n", "U+0663"}

Insert(s, k, c) == SubSeq(s, 1, k - 1) \o <<c>> \o SubSeq(s, k, Len(s))
Delete(s, k)    == SubSeq(s, 1, k - 1) \o SubSeq(s, k + 1, Len(s))
Replace(s, k, c) == [s EXCEPT ![k] = c]

\* every string one edit away from s, and s itself
Edits(s) ==
    {s} \cup { Insert(s, k, c) : k \in 1..(Len(s) + 1), c \in EditChars }
        \cup { Delete(s, k) : k \in 1..Len(s) }
        \cup { Replace(s, k, c) : k \in 1..Len(s), c \in EditChars }

\* up to two edits of a valid dashed identifier
MalformedInputs ==
    UNION { Edits(t) : t \in Edits(Str(1, 1, 90, <<"1", "2", "3", "4">>, TRUE)) }

ValidatorInputs == DateInputs \cup TestCases \cup MalformedInputs

PipelineInputs ==
    TestCases
        \cup { Str(29, 2, 0, <<"1", "2", "3", "4">>, FALSE),
               Str(29, 2, 0, <<"1", "2", "3", "4">>, FALSE) \o <<"\n">>,
               Replace(Str(29, 2, 0, <<"1", "2", "3", "4">>, TRUE), 9, "U+0663"),
               Insert(Str(29, 2, 0, <<"1", "2", "3", "4">>, TRUE), 3, "-"),
               Delete(Str(29, 2, 0, <<"1", "2", "3", "4">>, TRUE), 7),
               Replace(Str(29, 2, 0, <<"1", "2", "3", "4">>, TRUE), 7, " ") }
        \cup { Str(d, 2, yy, <<"0", "0", "0", "0">>, TRUE) :
                 d \in 28..MaxDay, yy \in {0, 1} }

----------------------------------------------------------------------------
(* The request.                                                            *)

InitWith(inputs) ==
    /\ v \in inputs
    /\ pc = "received"
    /\ kennitala = <<>>
    /\ switch_port_data = NoLookup
    /\ usage_data = NoUsage
    /\ lookup_calls = <<>>
    /\ metrics_calls = <<>>
    /\ metrics_outcome = NoOutcome
    /\ end_time = NoTime
    /\ response = NoResponse

Init == InitWith(PipelineInputs)

InitValidator == InitWith(ValidatorInputs)

\* the handler runs although the body failed validation
body_rejected_never(result) == FALSE

\* FastAPI parses the body into SSNRequest before it calls the handler; a
\* ValueError of the validator ends the request with 422
body_rejected(result) == ~result.ok

\* The entry FastAPI puts in the 422 detail for a ValueError of the
\* validator.  The repository pins no pydantic version: pydantic 1 reports
\* the message as raised, pydantic 2 reports "Value error, " + message with
\* the rejected input.  msg is the list of the pieces of the string.
ValidationErrorDetail(error, input) ==
    { [type |-> "value_error", loc |-> <<"body", "kennitala">>,
       msg |-> <<error>>],
      [type |-> "value_error", loc |-> <<"body", "kennitala">>,
       msg |-> <<"Value error, ", error>>, input |-> input,
       ctx |-> [error |-> <<>>]] }

\* POST /get-usage-data, body parsing: SSNRequest(kennitala=v)
ValidateRequest ==
    /\ pc = "received"
    /\ LET result == validate_kennitala(v)
       IN  IF body_rejected(result)
           THEN /\ pc' = "done"
                /\ kennitala' = result.value
                /\ \E d \in ValidationErrorDetail(result.error, v) :
                     response' = [status |-> 422, detail |-> <<d>>]
           ELSE /\ pc' = "validated"
                /\ kennitala' = result.value
                /\ response' = response
    /\ UNCHANGED <<v, switch_port_data, usage_data, lookup_calls,
                   metrics_calls, metrics_outcome, end_time>>

\* str(e) of the HTTPException: "<status_code>: <detail>" where the framework
\* defines __str__, the empty string where it does not
HTTPExceptionStr(status_code, detail) ==
    { <<str_status(status_code), ": ", detail>>, <<>> }

\* `except Exception as e` of get_usage_data: HTTPException is an Exception,
\* so the 404 raised inside the try block is caught and replaced
on_http_exception(status_code, detail, str_e) ==
    [status |-> 500, detail |-> <<"Error processing request: ">> \o str_e]

\* the raw body string passed on instead of the validated field
lookup_argument_raw == v

\* the argument get_usage_data passes to get_switch_port_data
lookup_argument == kennitala

\* the success flag of the lookup result never tested
lookup_failed_ignored(r) == FALSE

\* `if not switch_port_data['success']`
lookup_failed(r) == ~r.success

\* get_usage_data up to the first await's return and the success test
LookupStep ==
    /\ pc = "validated"
    /\ \E r \in LookupResults :
         /\ lookup_calls' = Append(lookup_calls, lookup_argument)
         /\ switch_port_data' = r
         /\ IF lookup_failed(r)
            THEN /\ \E str_e \in HTTPExceptionStr(404, r.message) :
                      response' = on_http_exception(404, r.message, str_e)
                 /\ pc' = "done"
            ELSE /\ response' = response
                 /\ pc' = "monitoring"
    /\ UNCHANGED <<v, kennitala, usage_data, metrics_calls, metrics_outcome,
                   end_time>>

\* the record get_usage_data returns
UsageDataResponse(k, sp, usage, now) ==
    [kennitala     |-> k,
     switch_number |-> sp.switch_number,
     port_number   |-> sp.port_number,
     usage_data    |-> usage,
     timestamp     |-> now]

\* get_monitoring_data from its call to `await client.get(...)`: the time
\* range and the params are computed, the client is built and the HTTP call
\* is issued.  When building the client raises, `except Exception` returns
\* the error dict without any call and get_usage_data returns the record.
MetricsCallIssue ==
    /\ pc = "monitoring"
    /\ \/ /\ \E offset_change \in OffsetChanges :
               LET end == Naive(BaseTime, 0)
               IN  /\ end_time' = end
                   /\ metrics_calls' =
                         Append(metrics_calls,
                                monitoring_params(switch_port_data.switch_number,
                                                  switch_port_data.port_number,
                                                  end, offset_change))
          /\ pc' = "awaiting_metrics"
          /\ UNCHANGED <<usage_data, response>>
       \/ /\ \E m \in ClientErrors, t2 \in ClockSteps :
               LET end == Naive(BaseTime, 0)
                   usage == get_monitoring_data(
                                switch_port_data.switch_number,
                                switch_port_data.port_number, end,
                                [kind |-> "raise", message |-> m])
               IN  /\ end_time' = end
                   /\ usage_data' = usage
                   /\ response' =
                         [status |-> 200,
                          body   |-> UsageDataResponse(kennitala,
                                         switch_port_data, usage,
                                         Naive(end.now + t2, 0))]
          /\ pc' = "done"
          /\ UNCHANGED metrics_calls
    /\ UNCHANGED <<v, kennitala, switch_port_data, lookup_calls,
                   metrics_outcome>>

\* `await client.get(...)` returns a response or raises; the coroutine then
\* leaves the `async with` block, whose __aexit__ is awaited
MetricsReply ==
    /\ pc = "awaiting_metrics"
    /\ \E o \in MetricsOutcomes : metrics_outcome' = o
    /\ pc' = "closing_client"
    /\ UNCHANGED <<v, kennitala, switch_port_data, usage_data, lookup_calls,
                   metrics_calls, end_time, response>>

\* the client is closed: get_monitoring_data returns its dict and
\* get_usage_data reads the clock again and returns the record
MetricsReturn ==
    /\ pc = "closing_client"
    /\ \E t2 \in ClockSteps :
         LET usage == get_monitoring_data(switch_port_data.switch_number,
                                          switch_port_data.port_number,
                                          end_time, metrics_outcome)
         IN  /\ usage_data' = usage
             /\ response' =
                   [status |-> 200,
                    body   |-> UsageDataResponse(kennitala, switch_port_data,
                                                 usage,
                                                 Naive(end_time.now + t2, 0))]
    /\ pc' = "done"
    /\ UNCHANGED <<v, kennitala, switch_port_data, lookup_calls,
                   metrics_calls, metrics_outcome, end_time>>

Next ==
    \/ ValidateRequest
    \/ LookupStep
    \/ MetricsCallIssue
    \/ MetricsReply
    \/ MetricsReturn

Spec == Init /\ [][Next]_vars

NextValidator == ValidateRequest

SpecValidator == InitValidator /\ [][NextValidator]_vars

----------------------------------------------------------------------------
(* Vocabulary of the properties, stated without the validator's operators. *)

\* s is 6 digit characters, an optional '-' and 4 digit characters, and
\* nothing else, a digit character being any decimal digit of Unicode: the
\* ten digits 0-9 and the digits of other scripts
WellShaped(s) ==
    \/ Len(s) = 10 /\ \A i \in 1..10 : IsDigit(s[i])
    \/ Len(s) = 11 /\ s[7] = "-" /\ \A i \in (1..11) \ {7} : IsDigit(s[i])

\* the digits 0-9
DecimalDigits == {"0", "1", "2", "3", "4", "5", "6", "7", "8", "9"}

\* s is 6 of the digits 0-9, an optional '-' and 4 of the digits 0-9, and
\* nothing else
TenDigitShaped(s) ==
    \/ Len(s) = 10 /\ \A i \in 1..10 : s[i] \in DecimalDigits
    \/ Len(s) = 11 /\ s[7] = "-"
                   /\ \A i \in (1..11) \ {7} : s[i] \in DecimalDigits

\* the ten digits of a well-shaped s
TenDigits(s) == IF Len(s) = 11 THEN SubSeq(s, 1, 6) \o SubSeq(s, 8, 11) ELSE s

\* the other written form of a well-shaped s
OtherForm(s) ==
    IF Len(s) = 11 THEN TenDigits(s)
    ELSE SubSeq(s, 1, 6) \o <<"-">> \o SubSeq(s, 7, 10)

FieldDD(s) == 10 * DigitValue(s[1]) + DigitValue(s[2])
FieldMM(s) == 10 * DigitValue(s[3]) + DigitValue(s[4])
FieldYY(s) == 10 * DigitValue(s[5]) + DigitValue(s[6])

\* 51..99 are the 1900s, 00..50 the 2000s
ResolvedYear(yy) == IF yy \in 51..99 THEN 1900 + yy ELSE 2000 + yy

GregorianLeap(y) == y % 400 = 0 \/ (y % 4 = 0 /\ y % 100 # 0)

MonthLengths == <<31, 28, 31, 30, 31, 30, 31, 31, 30, 31, 30, 31>>

\* (d, m, y) is a date of the Gregorian calendar
ExistingDate(y, m, d) ==
    /\ m \in 1..12
    /\ d >= 1
    /\ d <= MonthLengths[m] + (IF m = 2 /\ GregorianLeap(y) THEN 1 ELSE 0)

\* the date a well-shaped s encodes exists
EncodesDate(s) == ExistingDate(ResolvedYear(FieldYY(s)), FieldMM(s), FieldDD(s))

\* the validator's message, the last piece of the 422 entry's msg
RejectionMessage == response.detail[1].msg[Len(response.detail[1].msg)]

Validated == pc # "received"
Accepted  == pc = "validated"
Rejected  == pc = "done" /\ response.status = 422 /\ kennitala = <<>>

----------------------------------------------------------------------------
(* Properties of the validator, checked under SpecValidator.               *)

\* C1: every well-shaped input that encodes an existing date is accepted,
\* the validator returns its ten digits without the separator, and the other
\* written form of the same digits validates to the same value.
C1_ValidAccepted ==
    (Validated /\ WellShaped(v) /\ EncodesDate(v)) =>
        /\ Accepted
        /\ kennitala = TenDigits(v)
        /\ validate_kennitala(OtherForm(v)) = Return(kennitala)

\* a dashed input was accepted and came out as its ten digits
C1_Witness ==
    /\ Accepted
    /\ Len(v) = 11
    /\ v[7] = "-"
    /\ Len(kennitala) = 10
    /\ kennitala = TenDigits(v)

\* C4: the year handed to the calendar is 1900+yy for yy in 51..99 and
\* 2000+yy for yy in 00..50, and a 29 February input is accepted exactly
\* when that year is a leap year.
C4_CenturyResolution ==
    (Validated /\ WellShaped(v)) =>
        /\ full_year(FieldYY(v)) = ResolvedYear(FieldYY(v))
        /\ (FieldYY(v) >= 51 => full_year(FieldYY(v)) \in 1951..1999)
        /\ (FieldYY(v) <= 50 => full_year(FieldYY(v)) \in 2000..2050)
        /\ (FieldDD(v) = 29 /\ FieldMM(v) = 2) =>
              (Accepted <=> GregorianLeap(ResolvedYear(FieldYY(v))))

\* 290200-1234 was accepted, as 29 February 2000
C4_Witness ==
    /\ Accepted
    /\ v = <<"2", "9", "0", "2", "0", "0", "-", "1", "2", "3", "4">>
    /\ full_year(FieldYY(v)) = 2000

\* C5: a well-shaped input whose date does not exist is rejected with the
\* date error and no identifier comes out.
C5_BadDateRejected ==
    (Validated /\ WellShaped(v) /\ ~EncodesDate(v)) =>
        /\ Rejected
        /\ RejectionMessage = ErrDate

\* 30 February was rejected
C5_Witness ==
    /\ Rejected
    /\ WellShaped(v)
    /\ FieldDD(v) = 30
    /\ FieldMM(v) = 2
    /\ RejectionMessage = ErrDate

\* C6: an input that is not exactly ten digits 0-9 with at most one '-'
\* between the 6th and the 7th (too short, too long, a character that is
\* neither a digit nor that separator, a misplaced or second separator, a
\* trailing character) is rejected, by the pattern or by the length check.
C6_BadShapeRejected ==
    (Validated /\ ~TenDigitShaped(v)) =>
        /\ Rejected
        /\ RejectionMessage \in {ErrFormat, ErrLength}

----------------------------------------------------------------------------
(* Properties of the request, checked under Spec.                          *)

LookupReturned ==
    /\ lookup_calls # <<>>
    /\ pc \in {"monitoring", "awaiting_metrics", "closing_client", "done"}


\* C2: a lookup that reports success = false ends the request with a 404
\* whose detail is the lookup's message.
C2_LookupFailureIs404 ==
    (pc = "done" /\ LookupReturned /\ ~switch_port_data.success) =>
        /\ response.status = 404
        /\ response.detail = switch_port_data.message

\* C3: a non-200 reply of the metrics query still ends the request with a
\* 200 whose usage_data has status "error", an error message and the raw body.
C3_MetricsSoftFail ==
    (pc = "done" /\ metrics_outcome.kind = "response"
                 /\ metrics_outcome.status_code # 200) =>
        /\ response.status = 200
        /\ response.body.usage_data = usage_data
        /\ usage_data.status = "error"
        /\ {"error", "response"} \subseteq DOMAIN usage_data
        /\ usage_data.error # <<>>
        /\ usage_data.response = metrics_outcome.body.text

\* the metrics query answered 503 and the request ended 200 with the body
C3_Witness ==
    /\ pc = "done"
    /\ metrics_outcome.kind = "response"
    /\ metrics_outcome.status_code = 503
    /\ response.status = 200
    /\ response.body.usage_data.status = "error"
    /\ response.body.usage_data.response = "Service Unavailable"

\* C7: a request whose kennitala failed validation never reaches the
\* lookup or the metrics query and ends with the validation error.
C7_RejectedBeforeOrchestration ==
    (~validate_kennitala(v).ok) =>
        /\ lookup_calls = <<>>
        /\ metrics_calls = <<>>
        /\ switch_port_data = NoLookup
        /\ usage_data = NoUsage
        /\ pc \in {"received", "done"}
        /\ (pc = "done" => response.status = 422)
        /\ (pc = "received" => response = NoResponse)

\* an impossible date ended with 422 and no outbound call
C7_Witness ==
    /\ pc = "done"
    /\ ~validate_kennitala(v).ok
    /\ response.status = 422
    /\ RejectionMessage = ErrDate
    /\ lookup_calls = <<>>
    /\ metrics_calls = <<>>

\* C8: after a lookup with success = true the record carries the lookup's
\* switch and port, and every metrics query issued for the request, and the
\* selector reported back in a successful usage payload, select on the same
\* two values.
C8_SwitchPortPassedThrough ==
    /\ \A i \in 1..Len(metrics_calls) :
            /\ metrics_calls[i].query[2] = switch_port_data.switch_number
            /\ metrics_calls[i].query[4] = switch_port_data.port_number
    /\ ((pc = "done" /\ LookupReturned /\ switch_port_data.success) =>
            /\ response.status = 200
            /\ response.body.switch_number = switch_port_data.switch_number
            /\ response.body.port_number = switch_port_data.port_number
            /\ (response.body.usage_data.status = "success" =>
                    /\ response.body.usage_data.query[2] =
                           switch_port_data.switch_number
                    /\ response.body.usage_data.query[4] =
                           switch_port_data.port_number))

\* a lookup other than the placeholder's came back in the record
C8_Witness ==
    /\ pc = "done"
    /\ switch_port_data.success
    /\ switch_port_data.switch_number = "SW002"
    /\ switch_port_data.port_number = "P001"
    /\ response.body.switch_number = "SW002"
    /\ response.body.port_number = "P001"
    /\ Len(metrics_calls) = 1
    /\ metrics_calls[1].query[2] = "SW002"
    /\ metrics_calls[1].query[4] = "P001"

\* C9: the metrics query is issued only after the lookup returned
\* success = true, never after success = false, and each call at most once.
C9_SequentialSingleAttempt ==
    /\ Len(lookup_calls) <= 1
    /\ Len(metrics_calls) <= 1
    /\ (metrics_calls # <<>> =>
            lookup_calls # <<>> /\ switch_port_data \in LookupResults
                                /\ switch_port_data.success)
    /\ ((LookupReturned /\ ~switch_port_data.success) =>
            metrics_calls = <<>> /\ metrics_outcome = NoOutcome)
    /\ (metrics_outcome # NoOutcome => Len(metrics_calls) = 1)
    /\ (pc \in {"awaiting_metrics", "closing_client"} =>
            Len(metrics_calls) = 1)
    /\ (pc = "awaiting_metrics" => metrics_outcome = NoOutcome)
    /\ (pc = "done" => ~ENABLED Next)

\* the metrics query failed and the request ended with one call of each
C9_Witness ==
    /\ pc = "done"
    /\ Len(lookup_calls) = 1
    /\ Len(metrics_calls) = 1
    /\ metrics_outcome.kind = "raise"
    /\ usage_data.status = "error"

\* C10: the lookup is called with the validator's ten-digit output and the
\* record's kennitala is that same value.
C10_IdentifierCarried ==
    /\ (lookup_calls # <<>> =>
            /\ lookup_calls[1] = kennitala
            /\ kennitala = validate_kennitala(v).value
            /\ kennitala = TenDigits(v))
    /\ (response.status = 200 =>
            /\ response.body.kennitala = kennitala
            /\ response.body.kennitala = TenDigits(v))

\* "010190-1234", with the placeholder's lookup reply, ended as a record
\* for "0101901234"
C10_Witness ==
    /\ pc = "done"
    /\ switch_port_data = MockLookupResult
    /\ response.status = 200
    /\ v = <<"0", "1", "0", "1", "9", "0", "-", "1", "2", "3", "4">>
    /\ lookup_calls[1] = <<"0", "1", "0", "1", "9", "0", "1", "2", "3", "4">>
    /\ response.body.kennitala = <<"0", "1", "0", "1", "9", "0", "1", "2", "3", "4">>

====
